---- MODULE Spec2Model ----
(***************************************************************************)
(* GreenRetailAI: the emissions pipeline of src/utils.py                   *)
(* (load_delivery_data, compute_distances, estimate_emissions) and the     *)
(* script of src/app.py that drives it.                                    *)
(*                                                                         *)
(* Numbers.  Python floats are kept as fixed-point integers, one unit per  *)
(* column:                                                                 *)
(*   a float64 coordinate   [whole, micro]: whole + micro/10^6 degrees,    *)
(*                          0 <= micro < 10^6 (floor representation)       *)
(*   an int64 coordinate    the integer itself                             *)
(*   distance_km            [m, over]: m whole metres, the floor of the    *)
(*                          length; over is TRUE when the length exceeds m *)
(*   co2_kg, ev_saving_kg   units of 10^-5 kg (metres * hundredths kg/km)  *)
(*   ev_priority_score      tenths                                         *)
(*   line 20 of app.py      the slider's whole kilometres                  *)
(* Lt, Le and Ge compare a distance with a whole number of kilometres      *)
(* exactly: x < k and x >= k are decided by the floor, x <= k also needs   *)
(* to know whether x exceeds its floor.  Products and sums of distances    *)
(* (co2_kg, ev_saving_kg, the mean) are taken on the floor.                *)
(***************************************************************************)
EXTENDS Integers, Sequences, FiniteSets, TLC

VARIABLES
    src,              \* the CSV file that is read: [exists, columns, rows]
    nrows,            \* the nrows argument / "Rows to Load" slider
    uploaded_file,    \* app.py:19, TRUE when a file was uploaded
    distance_filter,  \* app.py:20, <<low, high>> in whole kilometres
    pc,               \* position of the caller in the pipeline
    df,               \* the DataFrame handed from stage to stage
    err,              \* the exception that ended the run, or NoErr
    stages,           \* the stage calls made so far, in call order
    runs,             \* completed estimate_emissions passes over df
    kpi               \* app.py:36-40, the KPI aggregates shown

vars == <<src, nrows, uploaded_file, distance_filter, pc, df, err, stages, runs, kpi>>

(***************************************************************************)
(* Bounds of the model                                                     *)
(***************************************************************************)
MaxRows == 2          \* rows in a source file
MaxRuns == 2          \* enrichment passes over one table

(***************************************************************************)
(* Program constants                                                       *)
(***************************************************************************)
DIESEL_EMISSION_FACTOR == 21     \* 0.21 kg/km, in hundredths
EV_EMISSION_FACTOR == 5          \* 0.05 kg/km, in hundredths
MicroPerDegree == 1000000        \* the 1e6 of utils.py:25

cols == <<"poi_lat", "poi_lng", "receipt_lat", "receipt_lng">>

Range(s) == {s[i] : i \in DOMAIN s}
Min(a, b) == IF a <= b THEN a ELSE b
Abs(a) == IF a < 0 THEN -a ELSE a
Km(n) == n * 1000                \* whole kilometres in metres

\* A float64 distance and its comparisons with k kilometres.
Dist(m, over) == [m |-> m, over |-> over]
Lt(d, k) == d.m < Km(k)
Le(d, k) == d.m < Km(k) \/ (d.m = Km(k) /\ ~d.over)
Ge(d, k) == d.m >= Km(k)

(***************************************************************************)
(* Values                                                                  *)
(***************************************************************************)
\* A CSV cell: digits that parse as an integer, or any other text.
Num(n) == [num |-> TRUE, v |-> n, s |-> ToString(n)]
Text(t) == [num |-> FALSE, v |-> 0, s |-> t]

\* A float64 number of degrees.
Deg(w, m) == [whole |-> w, micro |-> m]

NoErr == [kind |-> "none", msg |-> <<>>]
Error(k, m) == [kind |-> k, msg |-> m]

EmptyFn == [c \in {} |-> 0]
NoDf == [columns |-> <<>>, dtypes |-> EmptyFn, rows |-> <<>>]
NaN == [nan |-> TRUE, m |-> 0]
NoKpi == [shown |-> FALSE, co2 |-> 0, ev |-> 0, mean |-> NaN]

Ok(t) == [ok |-> TRUE, df |-> t, err |-> NoErr]
Raise(e) == [ok |-> FALSE, df |-> NoDf, err |-> e]

(***************************************************************************)
(* pandas.read_csv as the two call sites use it (utils.py:21, app.py:27).  *)
(* kw.usecols = <<>> stands for "usecols not given", kw.limit = FALSE for  *)
(* "nrows not given".  The parser opens the file, matches usecols against  *)
(* the header, validates nrows, then reads at most nrows rows.  A column   *)
(* whose read cells are all integers is int64; a column with any other     *)
(* text, and every column of a table without rows, is object.              *)
(***************************************************************************)
FirstRows(s, n) == SubSeq(s, 1, Min(Len(s), n))

KeptColumns(file, usecols) ==
    IF usecols = <<>> THEN file.columns
    ELSE SelectSeq(file.columns, LAMBDA c : c \in Range(usecols))

ColumnDtype(rws, c) ==
    IF rws # <<>> /\ \A i \in DOMAIN rws : rws[i][c].num THEN "int64" ELSE "object"

ParsedRows(rws, kept, dt) ==
    [i \in DOMAIN rws |->
        [c \in Range(kept) |-> IF dt[c] = "int64" THEN rws[i][c].v ELSE rws[i][c].s]]

read_csv(file, kw) ==
    IF ~file.exists
    THEN Raise(Error("FileNotFoundError", <<"No such file or directory">>))
    ELSE IF ~(Range(kw.usecols) \subseteq Range(file.columns))
    THEN Raise(Error("ValueError", <<"Usecols do not match columns">>))
    ELSE IF kw.limit /\ kw.nrows < 0
    THEN Raise(Error("ValueError", <<"'nrows' must be an integer >=0">>))
    ELSE LET kept == KeptColumns(file, kw.usecols)
             rws == IF kw.limit THEN FirstRows(file.rows, kw.nrows) ELSE file.rows
             dt == [c \in Range(kept) |-> ColumnDtype(rws, c)]
         IN Ok([columns |-> kept, dtypes |-> dt, rows |-> ParsedRows(rws, kept, dt)])

(***************************************************************************)
(* utils.py:24-25, df[col] = df[col] / 1e6 for one column.  An int64       *)
(* column becomes float64; a str cell of an object column raises           *)
(* TypeError; an object column without rows divides to itself.             *)
(***************************************************************************)
\* Decode with the scale one digit short.
DecodeWrongScale(raw) == Deg(raw \div 100000, raw % 100000)

Decode(raw) == Deg(raw \div MicroPerDegree, raw % MicroPerDegree)

DivideColumn(t, c) ==
    IF t.dtypes[c] = "int64"
    THEN Ok([t EXCEPT !.dtypes[c] = "float64",
                      !.rows = [i \in DOMAIN t.rows |->
                                   [t.rows[i] EXCEPT ![c] = Decode(t.rows[i][c])]]])
    ELSE IF t.rows = <<>>
    THEN Ok(t)
    ELSE Raise(Error("TypeError", <<"unsupported operand type(s) for /: 'str' and 'float'">>))

RECURSIVE DecodeFrom(_, _)
DecodeFrom(t, i) ==
    IF i > Len(cols) THEN Ok(t)
    ELSE LET r == DivideColumn(t, cols[i])
         IN IF r.ok THEN DecodeFrom(r.df, i + 1) ELSE r

(***************************************************************************)
(* utils.py:8-31 load_delivery_data                                        *)
(***************************************************************************)
\* The except clauses in the other order: the general one shadows FileNotFoundError.
ExceptFileNotFoundShadowed(e) ==
    Raise(Error("Exception", <<"Error reading delivery data: ">> \o e.msg))

ExceptFileNotFound(e) ==
    Raise(Error("FileNotFoundError", <<"File not found at: ", "data/raw/delivery_five_cities.csv">>))

ExceptException(e) ==
    Raise(Error("Exception", <<"Error reading delivery data: ">> \o e.msg))

load_delivery_data(file, n) ==
    LET rd == read_csv(file, [usecols |-> cols, nrows |-> n, limit |-> TRUE])
        r == IF rd.ok THEN DecodeFrom(rd.df, 1) ELSE rd
    IN IF r.ok THEN r
       ELSE IF r.err.kind = "FileNotFoundError" THEN ExceptFileNotFound(r.err)
       ELSE ExceptException(r.err)

(***************************************************************************)
(* geopy.distance.geodesic as utils.py:45-48 calls it.                     *)
(* Point(): a latitude outside [-90, 90] raises ValueError; a longitude    *)
(* outside [-180, 180] is wrapped into it, (x + 180) % 360 - 180.          *)
(* The length on the WGS-84 ellipsoid is modelled where it has a closed    *)
(* form: 0 between equal points, and the equatorial arc a * dLambda, never *)
(* a whole number of metres (a * pi / 180 is irrational),                  *)
(* (a = 6378137 m, 111319.49079 m per degree) between two points of the    *)
(* equator less than 179 degrees apart.  The inputs of the model stay      *)
(* inside these two cases.                                                 *)
(***************************************************************************)
AsDegrees(dtype, v) == IF dtype = "int64" THEN Deg(v, 0) ELSE v

LatitudeInRange(d) ==
    /\ d.whole >= -90
    /\ (d.whole < 90 \/ (d.whole = 90 /\ d.micro = 0))

LongitudeInRange(d) ==
    /\ d.whole >= -180
    /\ (d.whole < 180 \/ (d.whole = 180 /\ d.micro = 0))

NormalizeLongitude(d) ==
    IF LongitudeInRange(d) THEN d
    ELSE Deg(((d.whole + 180) % 360) - 180, d.micro)

Micro(d) == d.whole * MicroPerDegree + d.micro

\* floor of delta * 0.11131949079 metres, delta in microdegrees
EquatorArcMetres(delta) ==
    LET D == delta \div 1000000
        r == delta % 1000000
        rh == r \div 1000
        rl == r % 1000
        mm == rh * 111319 + (D * 490793 + rl * 111319 + (r * 49) \div 100) \div 1000
    IN D * 111319 + mm \div 1000

geodesic(lat1, lng1, lat2, lng2) ==
    IF ~LatitudeInRange(lat1) \/ ~LatitudeInRange(lat2)
    THEN [ok |-> FALSE, km |-> Dist(0, FALSE),
          err |-> Error("ValueError", <<"Latitude must be in the [-90; 90] range.">>)]
    ELSE LET l1 == Micro(NormalizeLongitude(lng1))
             l2 == Micro(NormalizeLongitude(lng2))
             d == IF Abs(l1 - l2) > 180 * MicroPerDegree
                  THEN 360 * MicroPerDegree - Abs(l1 - l2) ELSE Abs(l1 - l2)
         IN [ok |-> TRUE, err |-> NoErr,
             km |-> CASE lat1 = lat2 /\ d = 0 -> Dist(0, FALSE)
                      [] Micro(lat1) = 0 /\ Micro(lat2) = 0 /\ d <= 179 * MicroPerDegree
                           -> Dist(EquatorArcMetres(d), TRUE)]

(***************************************************************************)
(* df[name] = values: a column that exists is replaced in place, a new one *)
(* is appended after the others.                                           *)
(***************************************************************************)
\* A column name is appended even when the column exists.
SetColumnAppend(t, name, dtype, vals) ==
    [columns |-> Append(t.columns, name),
     dtypes |-> [c \in DOMAIN t.dtypes \cup {name} |->
                    IF c = name THEN dtype ELSE t.dtypes[c]],
     rows |-> [i \in DOMAIN t.rows |->
                  [c \in DOMAIN t.rows[i] \cup {name} |->
                      IF c = name THEN vals[i] ELSE t.rows[i][c]]]]

SetColumn(t, name, dtype, vals) ==
    [columns |-> IF name \in Range(t.columns) THEN t.columns ELSE Append(t.columns, name),
     dtypes |-> [c \in DOMAIN t.dtypes \cup {name} |->
                    IF c = name THEN dtype ELSE t.dtypes[c]],
     rows |-> [i \in DOMAIN t.rows |->
                  [c \in DOMAIN t.rows[i] \cup {name} |->
                      IF c = name THEN vals[i] ELSE t.rows[i][c]]]]

(***************************************************************************)
(* utils.py:34-51 compute_distances.  df.apply(..., axis=1) calls the      *)
(* lambda row by row and the first exception ends the call before the      *)
(* assignment.  On a table without rows apply calls the lambda once on a   *)
(* row of NaN: when that raises (a missing column, or geopy 2 refusing     *)
(* NaN) apply returns a copy of the frame and the assignment raises        *)
(* ValueError; when it returns a number (geopy 1) apply returns an empty   *)
(* Series and the column is added.  nan_distance tells which.              *)
(***************************************************************************)
RowDistance(t, i) ==
    LET row == t.rows[i]
        missing == SelectSeq(cols, LAMBDA c : c \notin Range(t.columns))
    IN IF missing # <<>>
       THEN [ok |-> FALSE, km |-> Dist(0, FALSE), err |-> Error("KeyError", <<missing[1]>>)]
       ELSE geodesic(AsDegrees(t.dtypes["poi_lat"], row["poi_lat"]),
                     AsDegrees(t.dtypes["poi_lng"], row["poi_lng"]),
                     AsDegrees(t.dtypes["receipt_lat"], row["receipt_lat"]),
                     AsDegrees(t.dtypes["receipt_lng"], row["receipt_lng"]))

compute_distances(t, nan_distance) ==
    IF t.rows = <<>>
    THEN IF nan_distance /\ Range(cols) \subseteq Range(t.columns)
         THEN Ok(SetColumn(t, "distance_km", "float64", <<>>))
         ELSE Raise(Error("ValueError",
                  <<"Cannot set a DataFrame with multiple columns to the single column distance_km">>))
    ELSE LET d == [i \in DOMAIN t.rows |-> RowDistance(t, i)]
             bad == {i \in DOMAIN t.rows : ~d[i].ok}
         IN IF bad # {}
            THEN Raise(d[CHOOSE i \in bad : \A j \in bad : i <= j].err)
            ELSE Ok(SetColumn(t, "distance_km", "float64", [i \in DOMAIN t.rows |-> d[i].km]))

(***************************************************************************)
(* utils.py:54-90 estimate_emissions                                       *)
(***************************************************************************)
\* The band edges taken inclusive.
score_ev_priority_inclusive(distance) ==
    IF Le(distance, 5) THEN 10
    ELSE IF Le(distance, 10) THEN 9
    ELSE IF Le(distance, 15) THEN 7
    ELSE IF Le(distance, 20) THEN 5
    ELSE IF Le(distance, 30) THEN 3
    ELSE 1

score_ev_priority(distance) ==
    IF Lt(distance, 5) THEN 10
    ELSE IF Lt(distance, 10) THEN 9
    ELSE IF Lt(distance, 15) THEN 7
    ELSE IF Lt(distance, 20) THEN 5
    ELSE IF Lt(distance, 30) THEN 3
    ELSE 1

Co2Kg(distance) == distance.m * DIESEL_EMISSION_FACTOR

\* The 10 km edge taken inclusive.
SuggestEvInclusive(distance) == Le(distance, 10)

SuggestEv(distance) == Lt(distance, 10)

\* The two factors subtracted the wrong way round.
EvSavingKgSwapped(distance) == distance.m * (EV_EMISSION_FACTOR - DIESEL_EMISSION_FACTOR)

EvSavingKg(distance) == distance.m * (DIESEL_EMISSION_FACTOR - EV_EMISSION_FACTOR)

Column(t, name) == [i \in DOMAIN t.rows |-> t.rows[i][name]]

estimate_emissions(t) ==
    IF "distance_km" \notin Range(t.columns)
    THEN Raise(Error("KeyError", <<"distance_km">>))
    ELSE LET t1 == SetColumn(t, "co2_kg", "float64",
                       [i \in DOMAIN t.rows |-> Co2Kg(t.rows[i]["distance_km"])])
             t2 == SetColumn(t1, "suggest_ev", "bool",
                       [i \in DOMAIN t.rows |-> SuggestEv(t1.rows[i]["distance_km"])])
             t3 == SetColumn(t2, "ev_saving_kg", "float64",
                       [i \in DOMAIN t.rows |-> EvSavingKg(t2.rows[i]["distance_km"])])
         IN Ok(SetColumn(t3, "ev_priority_score", "float64",
                   [i \in DOMAIN t.rows |-> score_ev_priority(t3.rows[i]["distance_km"])]))

(***************************************************************************)
(* Inputs: the files the pipeline is run on.  Every trip starts or ends on *)
(* the equator, or starts where it ends, so that geodesic is defined; the  *)
(* longitudes put the distance just below and just above each band edge    *)
(* of score_ev_priority (44915 microdegrees is 4999.9 m, 44916 is 5000.0 m)*)
(***************************************************************************)
Trip(plat, plng, rlat, rlng, city) ==
    [c \in Range(cols) \cup {"city"} |->
        CASE c = "poi_lat" -> plat
          [] c = "poi_lng" -> plng
          [] c = "receipt_lat" -> rlat
          [] c = "receipt_lng" -> rlng
          [] c = "city" -> Text(city)]

LngInputs == {0, 44915, 44916, 89831, 89832, 134747, 134748, 179663, 179664, 269494, 269495}

NumericTrips ==
    {Trip(Num(0), Num(0), Num(0), Num(x), "Pune") : x \in LngInputs}
    \cup {Trip(Num(0), Num(-44916), Num(0), Num(0), "Pune"),
          Trip(Num(37000000), Num(-122000000), Num(37000000), Num(-122000000), "Delhi"),
          Trip(Num(0), Num(0), Num(95000000), Num(0), "Delhi"),
          Trip(Num(0), Num(0), Num(0), Num(200000000), "Delhi")}

MalformedTrips == {Trip(Text("abc"), Num(0), Num(0), Num(44916), "Pune")}

ColumnSets == {cols, cols \o <<"city">>, SubSeq(cols, 1, 3)}

RowSeqs(S) == UNION {[1..n -> S] : n \in 0..MaxRows}

File(columns, rws) ==
    [exists |-> TRUE, columns |-> columns,
     rows |-> [i \in DOMAIN rws |-> [c \in Range(columns) |-> rws[i][c]]]]

MissingFile == [exists |-> FALSE, columns |-> <<>>, rows |-> <<>>]

Files(S) == {File(cs, rws) : cs \in ColumnSets, rws \in RowSeqs(S)}

NrowsInputs == (-1 .. MaxRows) \cup {100000}

(***************************************************************************)
(* A caller of utils.py: load_delivery_data, then compute_distances and    *)
(* estimate_emissions, which it may run again over the enriched table; or  *)
(* a caller that hands estimate_emissions a table of its own, whose        *)
(* distance_km holds any numbers: exact band edges (5.0, 10.0, ...), one   *)
(* metre below them (4.999, 9.999, ...), 12.0 and a negative one.          *)
(* An exception ends the run.                                              *)
(***************************************************************************)
DistanceInputs ==
    {Dist(Km(k), FALSE) : k \in {0, 5, 10, 12, 15, 20, 30}}
    \cup {Dist(Km(k) - 1, FALSE) : k \in {5, 10, 15, 20, 30}}
    \cup {Dist(-Km(1), FALSE)}

CallerTable(ds) ==
    [columns |-> <<"distance_km">>,
     dtypes |-> [c \in {"distance_km"} |-> "float64"],
     rows |-> [i \in DOMAIN ds |-> [c \in {"distance_km"} |-> ds[i]]]]

InitFromFile ==
    /\ src \in Files(NumericTrips \cup MalformedTrips) \cup {MissingFile}
    /\ nrows \in NrowsInputs
    /\ pc = "start"
    /\ df = NoDf

InitFromTable ==
    /\ src = MissingFile
    /\ nrows = 100000
    /\ pc = "distanced"
    /\ df \in {CallerTable(ds) : ds \in RowSeqs(DistanceInputs)}

Init ==
    /\ (InitFromFile \/ InitFromTable)
    /\ uploaded_file = FALSE
    /\ distance_filter = <<0, 50>>
    /\ err = NoErr
    /\ stages = <<>>
    /\ runs = 0
    /\ kpi = NoKpi

Load ==
    /\ pc = "start"
    /\ LET r == load_delivery_data(src, nrows)
       IN /\ pc' = IF r.ok THEN "loaded" ELSE "raised"
          /\ df' = r.df
          /\ err' = r.err
    /\ stages' = Append(stages, "load_delivery_data")
    /\ UNCHANGED <<src, nrows, uploaded_file, distance_filter, runs, kpi>>

ComputeDistances ==
    /\ pc \in {"loaded", "estimated"}
    /\ runs < MaxRuns
    /\ \E nan_distance \in BOOLEAN :
         LET r == compute_distances(df, nan_distance)
         IN /\ pc' = IF r.ok THEN "distanced" ELSE "raised"
            /\ df' = IF r.ok THEN r.df ELSE df
            /\ err' = r.err
    /\ stages' = Append(stages, "compute_distances")
    /\ UNCHANGED <<src, nrows, uploaded_file, distance_filter, runs, kpi>>

EstimateEmissions ==
    /\ pc = "distanced"
    /\ LET r == estimate_emissions(df)
       IN /\ pc' = IF r.ok THEN "estimated" ELSE "raised"
          /\ df' = IF r.ok THEN r.df ELSE df
          /\ err' = r.err
    /\ stages' = Append(stages, "estimate_emissions")
    /\ runs' = runs + 1
    /\ UNCHANGED <<src, nrows, uploaded_file, distance_filter, kpi>>

Next == Load \/ ComputeDistances \/ EstimateEmissions

Spec == Init /\ [][Next]_vars

(***************************************************************************)
(* app.py:18-40, one run of the script.  Any exception of lines 27-30 is   *)
(* shown by st.error and st.stop ends the run before the KPIs.             *)
(***************************************************************************)
RowsSlider == {1000, 5000, 100000}

FilterInputs == {<<0, 50>>, <<0, 10>>, <<5, 30>>}

RECURSIVE Sum(_, _)
Sum(f, n) == IF n = 0 THEN 0 ELSE f[n] + Sum(f, n - 1)

\* app.py:30
FilterByDistance(t, range) ==
    [t EXCEPT !.rows = SelectSeq(t.rows, LAMBDA row :
        /\ Ge(row["distance_km"], range[1])
        /\ Le(row["distance_km"], range[2]))]

\* app.py:40, df['distance_km'].mean(): NaN over no rows, else the mean,
\* here the floor of the mean of the floored metres.
MeanDistance(t) ==
    IF t.rows = <<>> THEN NaN
    ELSE [nan |-> FALSE,
          m |-> Sum([i \in DOMAIN t.rows |-> t.rows[i]["distance_km"].m], Len(t.rows))
                    \div Len(t.rows)]

\* app.py:38-40
Kpis(t) ==
    [shown |-> TRUE,
     co2 |-> Sum(Column(t, "co2_kg"), Len(t.rows)),
     ev |-> Cardinality({i \in DOMAIN t.rows : t.rows[i]["suggest_ev"]}),
     mean |-> MeanDistance(t)]

InitApp ==
    /\ uploaded_file \in BOOLEAN
    /\ src \in IF uploaded_file THEN Files(NumericTrips)
               ELSE Files(NumericTrips \cup MalformedTrips) \cup {MissingFile}
    /\ nrows \in RowsSlider
    /\ distance_filter \in FilterInputs
    /\ pc = "start"
    /\ df = NoDf
    /\ err = NoErr
    /\ stages = <<>>
    /\ runs = 0
    /\ kpi = NoKpi

\* app.py:27
AppRead ==
    /\ pc = "start"
    /\ LET r == IF uploaded_file
                THEN read_csv(src, [usecols |-> <<>>, nrows |-> 0, limit |-> FALSE])
                ELSE load_delivery_data(src, nrows)
       IN /\ pc' = IF r.ok THEN "loaded" ELSE "stopped"
          /\ df' = r.df
          /\ err' = r.err
    /\ stages' = Append(stages, IF uploaded_file THEN "read_csv" ELSE "load_delivery_data")
    /\ UNCHANGED <<src, nrows, uploaded_file, distance_filter, runs, kpi>>

\* app.py:28
AppComputeDistances ==
    /\ pc = "loaded"
    /\ \E nan_distance \in BOOLEAN :
         LET r == compute_distances(df, nan_distance)
         IN /\ pc' = IF r.ok THEN "distanced" ELSE "stopped"
            /\ df' = IF r.ok THEN r.df ELSE df
            /\ err' = r.err
    /\ stages' = Append(stages, "compute_distances")
    /\ UNCHANGED <<src, nrows, uploaded_file, distance_filter, runs, kpi>>

\* app.py:29
AppEstimateEmissions ==
    /\ pc = "distanced"
    /\ LET r == estimate_emissions(df)
       IN /\ pc' = IF r.ok THEN "estimated" ELSE "stopped"
          /\ df' = IF r.ok THEN r.df ELSE df
          /\ err' = r.err
    /\ stages' = Append(stages, "estimate_emissions")
    /\ runs' = runs + 1
    /\ UNCHANGED <<src, nrows, uploaded_file, distance_filter, kpi>>

\* app.py:30-31
AppFilter ==
    /\ pc = "estimated"
    /\ df' = FilterByDistance(df, distance_filter)
    /\ pc' = "filtered"
    /\ stages' = Append(stages, "filter")
    /\ UNCHANGED <<src, nrows, uploaded_file, distance_filter, err, runs, kpi>>

\* app.py:36-40
AppKpis ==
    /\ pc = "filtered"
    /\ kpi' = Kpis(df)
    /\ pc' = "reported"
    /\ stages' = Append(stages, "kpi")
    /\ UNCHANGED <<src, nrows, uploaded_file, distance_filter, df, err, runs>>

NextApp == AppRead \/ AppComputeDistances \/ AppEstimateEmissions \/ AppFilter \/ AppKpis

SpecApp == InitApp /\ [][NextApp]_vars

(***************************************************************************)
(* Properties                                                              *)
(***************************************************************************)
Appended == <<"distance_km", "co2_kg", "suggest_ev", "ev_saving_kg", "ev_priority_score">>

Has(t, name) == name \in Range(t.columns)

Rows(t) == DOMAIN t.rows

InBand(d, score) ==
    \/ Lt(d, 5) /\ score = 10
    \/ Ge(d, 5) /\ Lt(d, 10) /\ score = 9
    \/ Ge(d, 10) /\ Lt(d, 15) /\ score = 7
    \/ Ge(d, 15) /\ Lt(d, 20) /\ score = 5
    \/ Ge(d, 20) /\ Lt(d, 30) /\ score = 3
    \/ Ge(d, 30) /\ score = 1

\* a is certainly no longer than b
NoLonger(a, b) == a.m < b.m \/ (a.m = b.m /\ (~a.over \/ a = b))

Loaded == stages # <<>> /\ stages[1] = "load_delivery_data"

\* C1: every trip's ev_priority_score is the score of the band its
\* distance_km falls in (upper edges exclusive), so it never rises with the
\* distance and stays between 0.1 and 1.0.
C1_ScoreFollowsBandTable ==
    Has(df, "ev_priority_score") =>
        /\ \A i \in Rows(df) :
             /\ InBand(df.rows[i]["distance_km"], df.rows[i]["ev_priority_score"])
             /\ df.rows[i]["ev_priority_score"] >= 1
             /\ df.rows[i]["ev_priority_score"] <= 10
        /\ \A i, j \in Rows(df) :
             NoLonger(df.rows[i]["distance_km"], df.rows[j]["distance_km"])
                => df.rows[i]["ev_priority_score"] >= df.rows[j]["ev_priority_score"]

C1_Witness ==
    /\ pc = "estimated"
    /\ \E i, j \in Rows(df) :
         /\ df.rows[i]["distance_km"] = Dist(Km(30) - 1, FALSE)
         /\ df.rows[i]["ev_priority_score"] = 3
         /\ df.rows[j]["distance_km"] = Dist(Km(30), FALSE)
         /\ df.rows[j]["ev_priority_score"] = 1

\* C2: suggest_ev is true exactly when distance_km < 10: false at 10 km,
\* true at 0 km.
C2_SuggestEvIffUnderTen ==
    Has(df, "suggest_ev") =>
        \A i \in Rows(df) :
            /\ df.rows[i]["suggest_ev"] <=> Lt(df.rows[i]["distance_km"], 10)
            /\ df.rows[i]["distance_km"] = Dist(Km(10), FALSE) => ~df.rows[i]["suggest_ev"]
            /\ df.rows[i]["distance_km"] = Dist(0, FALSE) => df.rows[i]["suggest_ev"]

C2_Witness ==
    /\ pc = "estimated"
    /\ \E i, j \in Rows(df) :
         /\ df.rows[i]["distance_km"] = Dist(Km(10), FALSE) /\ ~df.rows[i]["suggest_ev"]
         /\ df.rows[j]["distance_km"] = Dist(0, FALSE) /\ df.rows[j]["suggest_ev"]

\* C7: for a non-negative distance_km, co2_kg is distance_km times the diesel
\* factor and ev_saving_kg is distance_km times the difference of the two
\* factors; neither is negative and both are 0 at distance 0.
C7_EmissionsFromDistance ==
    Has(df, "ev_saving_kg") =>
        \A i \in Rows(df) :
            LET d == df.rows[i]["distance_km"].m
                co2 == df.rows[i]["co2_kg"]
                saving == df.rows[i]["ev_saving_kg"]
            IN d >= 0 =>
                 /\ co2 = d * DIESEL_EMISSION_FACTOR
                 /\ saving = d * DIESEL_EMISSION_FACTOR - d * EV_EMISSION_FACTOR
                 /\ co2 >= 0 /\ saving >= 0
                 /\ d = 0 => (co2 = 0 /\ saving = 0)

C7_Witness ==
    /\ pc = "estimated"
    /\ \E i, j \in Rows(df) :
         /\ df.rows[i]["distance_km"] = Dist(0, FALSE) /\ df.rows[i]["co2_kg"] = 0
         /\ df.rows[j]["distance_km"] = Dist(Km(12), FALSE) /\ df.rows[j]["co2_kg"] = 252000
         /\ df.rows[j]["ev_saving_kg"] = 192000

\* C8: with a positive limit the loaded table holds the first min(N, limit)
\* rows of the source in source order, and every coordinate is the raw
\* microdegree integer divided by 1,000,000 (37000000 is 37.0, -122000000 is
\* -122.0).
C8_LoadDecodesFirstRows ==
    (Loaded /\ pc \in {"loaded", "distanced", "estimated"} /\ nrows > 0) =>
        /\ Len(df.rows) = Min(Len(src.rows), nrows)
        /\ \A i \in Rows(df) : \A k \in DOMAIN cols :
             LET v == df.rows[i][cols[k]]
                 raw == src.rows[i][cols[k]].v
             IN /\ v.whole * 1000000 + v.micro = raw
                /\ v.micro >= 0 /\ v.micro < 1000000
                /\ raw = 37000000 => v = Deg(37, 0)
                /\ raw = -122000000 => v = Deg(-122, 0)

C8_Witness ==
    /\ pc = "loaded"
    /\ nrows = 1
    /\ Len(src.rows) = 2
    /\ Len(df.rows) = 1
    /\ df.rows[1]["poi_lat"] = Deg(37, 0)
    /\ df.rows[1]["poi_lng"] = Deg(-122, 0)
    /\ src.rows[2]["receipt_lng"].v = 44916

MissingColumn == \E k \in DOMAIN cols : cols[k] \notin Range(src.columns)

MalformedCell ==
    \E i \in 1..Min(Len(src.rows), nrows) : \E k \in DOMAIN cols :
        ~src.rows[i][cols[k]].num

JustLoaded == stages = <<"load_delivery_data">>

\* C6: load_delivery_data ends in exactly one of three outcomes: a fully
\* decoded table; FileNotFoundError (NotFoundError) exactly when the source
\* does not exist; or the generic Exception (LoadError) for every other read
\* or parse failure, its message ending in the original failure's message.
\* Both error outcomes leave no table, partial or otherwise.
C6_LoadOutcomes ==
    JustLoaded =>
        /\ pc \in {"loaded", "raised"}
        /\ (pc = "loaded") <=> (err = NoErr)
        /\ (err.kind = "FileNotFoundError") <=> ~src.exists
        /\ (err.kind = "Exception")
              <=> (src.exists /\ (MissingColumn \/ nrows < 0 \/ MalformedCell))
        /\ err.kind \in {"none", "FileNotFoundError", "Exception"}
        /\ err.kind = "Exception" =>
              /\ err.msg[1] = "Error reading delivery data: "
              /\ Len(err.msg) = 2
              /\ MissingColumn => err.msg[2] = "Usecols do not match columns"
              /\ (~MissingColumn /\ nrows < 0) => err.msg[2] = "'nrows' must be an integer >=0"
              /\ (~MissingColumn /\ nrows >= 0) =>
                    err.msg[2] = "unsupported operand type(s) for /: 'str' and 'float'"
        /\ err # NoErr => df = NoDf
        /\ err = NoErr =>
              /\ df.columns = SelectSeq(src.columns, LAMBDA c : c \in Range(cols))
              /\ Len(df.rows) = Min(Len(src.rows), nrows)
              /\ df.rows # <<>> => \A k \in DOMAIN cols : df.dtypes[cols[k]] = "float64"

C6_Witness ==
    /\ JustLoaded
    /\ pc = "raised"
    /\ ~src.exists
    /\ err.kind = "FileNotFoundError"
    /\ df = NoDf

\* C9: once a table has been enriched, running compute_distances and
\* estimate_emissions over it again leaves it as it is: neither stage
\* changes a column, a row, the order or a value of the enriched table.
C9_SecondPassChangesNothing == [][runs >= 1 => df' = df]_vars

C9_Witness ==
    /\ runs = 2
    /\ pc = "estimated"
    /\ Len(df.rows) = 2
    /\ df.rows[1]["distance_km"] = Dist(Km(5), TRUE)
    /\ df.rows[2]["ev_priority_score"] = 1

\* C3: the table that comes out of load_delivery_data, compute_distances and
\* estimate_emissions keeps every column of the source, extra ones such as
\* city with their values, appends exactly the five derived columns, and has
\* the loaded rows in their order.
C3_EveryInputColumnKept ==
    (Loaded /\ pc = "estimated" /\ nrows > 0 /\ df.rows # <<>>) =>
        /\ df.columns = src.columns \o Appended
        /\ Len(df.rows) = Min(Len(src.rows), nrows)
        /\ \A i \in Rows(df) : \A c \in Range(src.columns) \ Range(cols) :
              df.rows[i][c] = src.rows[i][c].s

OutOfRange(row) ==
    \/ ~LatitudeInRange(row["poi_lat"]) \/ ~LatitudeInRange(row["receipt_lat"])
    \/ ~LongitudeInRange(row["poi_lng"]) \/ ~LongitudeInRange(row["receipt_lng"])

\* C4: when a trip given to compute_distances has a latitude outside -90..90
\* or a longitude outside -180..180, the call fails (the claim's
\* CoordinateRangeError; any exception is accepted here) and no table with
\* distance_km comes out of it.
C4_OutOfRangeAbortsBatch ==
    (Loaded /\ "compute_distances" \in Range(stages)
        /\ \E i \in Rows(df) : OutOfRange(df.rows[i])) =>
        /\ pc = "raised"
        /\ err # NoErr
        /\ ~Has(df, "distance_km")

\* C5: a non-positive row limit is rejected (the claim's ConfigurationError;
\* any exception is accepted here) before any row is loaded or processed, so
\* no table is loaded, let alone enriched, under it.
C5_InvalidConfigurationRejected ==
    (nrows <= 0 /\ Loaded) =>
        /\ pc = "raised"
        /\ err # NoErr
        /\ df = NoDf

PipelineOrder == <<"load_delivery_data", "compute_distances", "estimate_emissions", "filter", "kpi">>

\* C10: in every run of the application, with or without an uploaded file,
\* the stages run in the order loader, distance calculator, emissions
\* estimator, facade, and the table handed to compute_distances has had its
\* coordinates decoded by the loader.
C10_StagesInOrderFromLoader ==
    ("compute_distances" \in Range(stages) /\ df.rows # <<>>
        /\ Range(cols) \subseteq Range(df.columns)) =>
        /\ Len(stages) <= Len(PipelineOrder)
        /\ \A i \in DOMAIN stages : stages[i] = PipelineOrder[i]
        /\ \A k \in DOMAIN cols : df.dtypes[cols[k]] = "float64"

====
